---- MODULE Spec2Model ----
(***************************************************************************)
(* High Card game (src/game.py): two players each hold 1..13, play one     *)
(* number per turn for 13 turns, the higher number scores a point.         *)
(* Two modes: play() (human against a strategy) and simulate_game() (two   *)
(* strategies).  The strategies are modelled as operators over Python      *)
(* lists (sequences); a second specification, SpecSelect, applies them to  *)
(* arbitrary small argument lists.                                         *)
(***************************************************************************)
EXTENDS Integers, Sequences, FiniteSets, TLC

VARIABLES
    pc,                 \* position of the program
    mode,               \* which of play() / simulate_game() is running
    numbers,            \* Player.numbers of each Player object
    score,              \* Player.score of each Player object
    current_turn,       \* Game.current_turn
    computer_strategy,  \* Game.computer_strategy
    choice1,            \* local choice1 of _select_simulation_strategies
    strategy1,          \* local strategy1 of simulate_game
    strategy2,          \* local strategy2 of simulate_game
    iter,               \* iterations completed by the for loop of the match
    resolved,           \* number of _update_game_state calls made so far
    player1_choice,     \* local player_choice / player1_choice
    player2_choice,     \* local computer_choice / player2_choice
    result,             \* what _end_game announced
    rejected,           \* inputs rejected so far by the prompt loop in progress
    arg_strategy,       \* SpecSelect: the strategy whose play() is applied
    arg_player_numbers, \* SpecSelect: argument player_numbers
    arg_opponent_numbers, \* SpecSelect: argument opponent_numbers
    ret_play            \* SpecSelect: what play() returned

vars == <<pc, mode, numbers, score, current_turn, computer_strategy, choice1,
          strategy1, strategy2, iter, resolved, player1_choice, player2_choice,
          result, rejected, arg_strategy, arg_player_numbers,
          arg_opponent_numbers, ret_play>>

gameVars == <<mode, numbers, score, current_turn, computer_strategy, choice1,
              strategy1, strategy2, iter, resolved, player1_choice,
              player2_choice, result, rejected>>

selectVars == <<arg_strategy, arg_player_numbers, arg_opponent_numbers, ret_play>>

----------------------------------------------------------------------------
(* Bounds *)

\* during a match random.choice and the human pick any entry of a list of at
\* most MaxFreeLen entries, and the first or the last entry of a longer list
MaxFreeLen == 3

\* inputs a prompt loop rejects before an accepted one
MaxRejected == 2

\* longest player_numbers / opponent_numbers list SpecSelect applies play() to
MaxOwn == 3

MaxOpp == 2

----------------------------------------------------------------------------
(* Program constants *)

total_turns == 13

FirstNumber == 1

LastNumber == 13

Cards == FirstNumber..LastNumber

\* a call that raised instead of returning a number
Raised == -1

\* a local that holds no number yet
NoChoice == 0

Players == {"player", "computer", "player1", "player2"}

strategies == [k \in {"1", "2", "3", "4"} |->
                 CASE k = "1" -> "Random"
                   [] k = "2" -> "High Card"
                   [] k = "3" -> "Low Card"
                   [] k = "4" -> "Strategic Play"]

StrategyNames == {strategies[k] : k \in DOMAIN strategies}

----------------------------------------------------------------------------
(* Python lists *)

Range(s) == {s[i] : i \in 1..Len(s)}

\* list(range(1, 14))
InitialNumbers == [i \in 1..(LastNumber - FirstNumber + 1) |-> FirstNumber + i - 1]

\* list.remove(x): drops the first occurrence
ListRemove(s, x) ==
    LET i == CHOOSE k \in 1..Len(s) : s[k] = x /\ \A j \in 1..(k - 1) : s[j] # x
    IN  SubSeq(s, 1, i - 1) \o SubSeq(s, i + 1, Len(s))

\* max(list, default=0): answers 0 on the empty list
ListMax_default(s) ==
    IF s = << >> THEN 0
    ELSE CHOOSE m \in Range(s) : \A x \in Range(s) : x <= m

\* max(list); raises ValueError on the empty list
ListMax(s) ==
    IF s = << >> THEN Raised
    ELSE CHOOSE m \in Range(s) : \A x \in Range(s) : x <= m

\* min(list); raises ValueError on the empty list
ListMin(s) ==
    IF s = << >> THEN Raised
    ELSE CHOOSE m \in Range(s) : \A x \in Range(s) : m <= x

\* the entries a bounded pick may take from a list
Picks(s) == {s[i] : i \in {k \in 1..Len(s) : k = 1 \/ k = Len(s) \/ Len(s) <= MaxFreeLen}}

\* the values of a strategy call that the match follows
Drawn(strategy, player_numbers, values) ==
    {c \in values : (strategy = "Random" /\ c \in Range(player_numbers))
                       => c \in Picks(player_numbers)}

----------------------------------------------------------------------------
(* Player *)

\* remove_number that never finds the number
remove_number_never(nums, number) ==
    [removed |-> FALSE, numbers |-> nums]

\* remove_number that reports the removal without making it
remove_number_keep(nums, number) ==
    IF number \in Range(nums)
    THEN [removed |-> TRUE, numbers |-> nums]
    ELSE [removed |-> FALSE, numbers |-> nums]

\* remove_number that drops the first entry of the list (pop(0))
remove_number_first(nums, number) ==
    IF number \in Range(nums)
    THEN [removed |-> TRUE, numbers |-> Tail(nums)]
    ELSE [removed |-> FALSE, numbers |-> nums]

\* remove_number that puts an absent number back (toggle)
remove_number_readd(nums, number) ==
    IF number \in Range(nums)
    THEN [removed |-> TRUE, numbers |-> ListRemove(nums, number)]
    ELSE [removed |-> FALSE, numbers |-> Append(nums, number)]

\* remove_number that reports success for an absent number
remove_number_always(nums, number) ==
    IF number \in Range(nums)
    THEN [removed |-> TRUE, numbers |-> ListRemove(nums, number)]
    ELSE [removed |-> TRUE, numbers |-> nums]

remove_number(nums, number) ==
    IF number \in Range(nums)
    THEN [removed |-> TRUE, numbers |-> ListRemove(nums, number)]
    ELSE [removed |-> FALSE, numbers |-> nums]

----------------------------------------------------------------------------
(* Strategies: each play operator yields the set of values the call can    *)
(* produce (one value for the deterministic strategies).                   *)

RandomStrategy_play(player_numbers, opponent_numbers) ==
    IF player_numbers = << >> THEN {Raised}
    ELSE {player_numbers[i] : i \in 1..Len(player_numbers)}

\* High Card with min in place of max
HighCardStrategy_play_min(player_numbers, opponent_numbers) ==
    {ListMin(player_numbers)}

HighCardStrategy_play(player_numbers, opponent_numbers) ==
    {ListMax(player_numbers)}

LowCardStrategy_play(player_numbers, opponent_numbers) ==
    {ListMin(player_numbers)}

\* Strategic Play giving up its highest number when it cannot win
StrategicPlay_play_max(player_numbers, opponent_numbers) ==
    IF opponent_numbers = << >> THEN {ListMax(player_numbers)}
    ELSE LET opponent_highest == ListMax(opponent_numbers)
             winning_cards == SelectSeq(player_numbers,
                                        LAMBDA card : card > opponent_highest)
         IN  IF winning_cards # << >> THEN {ListMin(winning_cards)}
             ELSE {ListMax(player_numbers)}

\* Strategic Play answering one above the opponent's highest
StrategicPlay_play_above(player_numbers, opponent_numbers) ==
    IF opponent_numbers = << >> THEN {ListMax(player_numbers)}
    ELSE LET opponent_highest == ListMax(opponent_numbers)
             winning_cards == SelectSeq(player_numbers,
                                        LAMBDA card : card > opponent_highest)
         IN  IF winning_cards # << >> THEN {opponent_highest + 1}
             ELSE {ListMin(player_numbers)}

\* Strategic Play with card >= opponent_highest
StrategicPlay_play_ge(player_numbers, opponent_numbers) ==
    IF opponent_numbers = << >> THEN {ListMax(player_numbers)}
    ELSE LET opponent_highest == ListMax(opponent_numbers)
             winning_cards == SelectSeq(player_numbers,
                                        LAMBDA card : card >= opponent_highest)
         IN  IF winning_cards # << >> THEN {ListMin(winning_cards)}
             ELSE {ListMin(player_numbers)}

StrategicPlay_play(player_numbers, opponent_numbers) ==
    IF opponent_numbers = << >> THEN {ListMax(player_numbers)}
    ELSE LET opponent_highest == ListMax(opponent_numbers)
             winning_cards == SelectSeq(player_numbers,
                                        LAMBDA card : card > opponent_highest)
         IN  IF winning_cards # << >> THEN {ListMin(winning_cards)}
             ELSE {ListMin(player_numbers)}

Strategy_play(strategy, player_numbers, opponent_numbers) ==
    CASE strategy = "Random" -> RandomStrategy_play(player_numbers, opponent_numbers)
      [] strategy = "High Card" -> HighCardStrategy_play(player_numbers, opponent_numbers)
      [] strategy = "Low Card" -> LowCardStrategy_play(player_numbers, opponent_numbers)
      [] strategy = "Strategic Play" -> StrategicPlay_play(player_numbers, opponent_numbers)

----------------------------------------------------------------------------
(* Console input *)

DigitValue == [c \in {"0", "1", "2", "3", "4", "5", "6", "7", "8", "9"} |->
                 CASE c = "0" -> 0 [] c = "1" -> 1 [] c = "2" -> 2
                   [] c = "3" -> 3 [] c = "4" -> 4 [] c = "5" -> 5
                   [] c = "6" -> 6 [] c = "7" -> 7 [] c = "8" -> 8
                   [] c = "9" -> 9]

\* str(n) for n >= 0
RECURSIVE Numeral(_)
Numeral(n) ==
    LET d == CHOOSE c \in DOMAIN DigitValue : DigitValue[c] = n % 10
    IN  IF n < 10 THEN <<d>> ELSE Numeral(n \div 10) \o <<d>>

\* the lines the human types, as lists of characters: the numerals around the
\* range of the cards, and lines that are not plain numerals
InputLines ==
    {Numeral(n) : n \in (FirstNumber - 1)..(LastNumber + 1)}
       \cup {<< >>, <<"x">>, <<"-">>, <<"-", "1">>, <<"1", "x">>, <<"0", "7">>}

RECURSIVE DigitsValue(_)
DigitsValue(s) ==
    IF s = << >> THEN 0
    ELSE 10 * DigitsValue(SubSeq(s, 1, Len(s) - 1)) + DigitValue[s[Len(s)]]

AllDigits(s) == s # << >> /\ \A i \in 1..Len(s) : s[i] \in DOMAIN DigitValue

\* int(line): [ok |-> FALSE] stands for ValueError
ParseInt(line) ==
    IF AllDigits(line) THEN [ok |-> TRUE, value |-> DigitsValue(line)]
    ELSE IF line # << >> /\ line[1] = "-" /\ AllDigits(Tail(line))
         THEN [ok |-> TRUE, value |-> 0 - DigitsValue(Tail(line))]
         ELSE [ok |-> FALSE, value |-> 0]

\* the lines typed at the number prompt: every line that is rejected, and the
\* lines naming a number the bounded pick allows
NumberLines(nums) ==
    {line \in InputLines :
        LET p == ParseInt(line)
        IN  (p.ok /\ p.value \in Range(nums))
               => p.value \in Picks(nums)}

\* the lines typed at the menu and strategy prompts
KeyLines == {"1", "2", "3", "4", "5", "x", ""}

----------------------------------------------------------------------------
(* Game *)

\* the two Player objects of the running match
SideA == IF mode = "simulate" THEN "player1" ELSE "player"

SideB == IF mode = "simulate" THEN "player2" ELSE "computer"

\* score comparison that awards the tie to player1
TurnScores_tie(c1, c2, s1, s2) ==
    IF c1 >= c2 THEN <<s1 + 1, s2>>
    ELSE IF c2 > c1 THEN <<s1, s2 + 1>>
    ELSE <<s1, s2>>

\* the score comparison of _update_game_state
TurnScores(c1, c2, s1, s2) ==
    IF c1 > c2 THEN <<s1 + 1, s2>>
    ELSE IF c2 > c1 THEN <<s1, s2 + 1>>
    ELSE <<s1, s2>>

\* _end_game that gives player1 the game on equal scores
end_game_ge(s1, s2) ==
    IF s1 >= s2 THEN "player1 wins"
    ELSE IF s2 > s1 THEN "player2 wins"
    ELSE "tie"

end_game(s1, s2) ==
    IF s1 > s2 THEN "player1 wins"
    ELSE IF s2 > s1 THEN "player2 wins"
    ELSE "tie"

\* for loop that stops one iteration early
LoopContinues_short(done_iterations) == done_iterations < total_turns - 1

\* the for loop: body again while iterations remain, else _end_game
LoopContinues(done_iterations) == done_iterations < total_turns

Init ==
    /\ pc = "menu"
    /\ mode = "none"
    /\ numbers = [p \in Players |->
                    IF p \in {"player", "computer"} THEN InitialNumbers ELSE << >>]
    /\ score = [p \in Players |-> 0]
    /\ current_turn = 1
    /\ computer_strategy = "None"
    /\ choice1 = "None"
    /\ strategy1 = "None"
    /\ strategy2 = "None"
    /\ iter = 0
    /\ resolved = 0
    /\ player1_choice = NoChoice
    /\ player2_choice = NoChoice
    /\ result = "none"
    /\ rejected = 0
    /\ arg_strategy = "None"
    /\ arg_player_numbers = << >>
    /\ arg_opponent_numbers = << >>
    /\ ret_play = NoChoice

\* __main__: the mode menu
main_menu(choice) ==
    /\ pc = "menu"
    /\ IF choice = "1"
       THEN /\ pc' = "select_strategy"
            /\ mode' = "play"
            /\ rejected' = 0
       ELSE IF choice = "2"
       THEN /\ pc' = "choice1"
            /\ mode' = "simulate"
            /\ rejected' = 0
       ELSE /\ rejected < MaxRejected
            /\ rejected' = rejected + 1
            /\ UNCHANGED <<pc, mode>>
    /\ UNCHANGED <<numbers, score, current_turn, computer_strategy, choice1,
                   strategy1, strategy2, iter, resolved, player1_choice,
                   player2_choice, result>>
    /\ UNCHANGED selectVars

\* _select_strategy that falls back to Random on an unrecognised key
select_strategy_default(choice) ==
    /\ pc = "select_strategy"
    /\ computer_strategy' = IF choice \in DOMAIN strategies
                            THEN strategies[choice] ELSE "Random"
    /\ rejected' = 0
    /\ pc' = "get_player_choice"
    /\ UNCHANGED <<mode, numbers, score, current_turn, choice1, strategy1,
                   strategy2, iter, resolved, player1_choice, player2_choice,
                   result>>
    /\ UNCHANGED selectVars

\* play(): _select_strategy, then the first _display_status
select_strategy(choice) ==
    /\ pc = "select_strategy"
    /\ IF choice \in DOMAIN strategies
       THEN /\ computer_strategy' = strategies[choice]
            /\ rejected' = 0
            /\ pc' = IF LoopContinues(0) THEN "get_player_choice" ELSE "done"
            /\ result' = IF LoopContinues(0) THEN result
                         ELSE end_game(score["player"], score["computer"])
       ELSE /\ rejected < MaxRejected
            /\ rejected' = rejected + 1
            /\ UNCHANGED <<pc, computer_strategy, result>>
    /\ UNCHANGED <<mode, numbers, score, current_turn, choice1, strategy1,
                   strategy2, iter, resolved, player1_choice, player2_choice>>
    /\ UNCHANGED selectVars

\* simulate_game(): first prompt loop of _select_simulation_strategies
select_simulation_choice1(choice) ==
    /\ pc = "choice1"
    /\ IF choice \in DOMAIN strategies
       THEN /\ choice1' = choice
            /\ rejected' = 0
            /\ pc' = "choice2"
       ELSE /\ rejected < MaxRejected
            /\ rejected' = rejected + 1
            /\ UNCHANGED <<pc, choice1>>
    /\ UNCHANGED <<mode, numbers, score, current_turn, computer_strategy,
                   strategy1, strategy2, iter, resolved, player1_choice,
                   player2_choice, result>>
    /\ UNCHANGED selectVars

\* second prompt loop, then the two Player objects are created
select_simulation_choice2(choice) ==
    /\ pc = "choice2"
    /\ IF choice \in DOMAIN strategies
       THEN /\ strategy1' = strategies[choice1]
            /\ strategy2' = strategies[choice]
            /\ numbers' = [numbers EXCEPT !["player1"] = InitialNumbers,
                                          !["player2"] = InitialNumbers]
            /\ score' = [score EXCEPT !["player1"] = 0, !["player2"] = 0]
            /\ rejected' = 0
            /\ pc' = IF LoopContinues(0) THEN "simulate_play" ELSE "done"
            /\ result' = IF LoopContinues(0) THEN result ELSE end_game(0, 0)
       ELSE /\ rejected < MaxRejected
            /\ rejected' = rejected + 1
            /\ UNCHANGED <<pc, strategy1, strategy2, numbers, score, result>>
    /\ UNCHANGED <<mode, current_turn, computer_strategy, choice1, iter,
                   resolved, player1_choice, player2_choice>>
    /\ UNCHANGED selectVars

\* play(): one line typed at the number prompt of _get_player_choice
get_player_choice(line) ==
    /\ pc = "get_player_choice"
    /\ LET parsed == ParseInt(line)
           removal == remove_number(numbers["player"], parsed.value)
       IN  IF parsed.ok /\ removal.removed
           THEN /\ numbers' = [numbers EXCEPT !["player"] = removal.numbers]
                /\ player1_choice' = parsed.value
                /\ rejected' = 0
                /\ pc' = "computer_play"
           ELSE /\ rejected < MaxRejected
                /\ rejected' = rejected + 1
                /\ UNCHANGED <<pc, numbers, player1_choice>>
    /\ UNCHANGED <<mode, score, current_turn, computer_strategy, choice1,
                   strategy1, strategy2, iter, resolved, player2_choice, result>>
    /\ UNCHANGED selectVars

\* play(): computer_strategy.play(computer.numbers, player.numbers)
computer_play ==
    /\ pc = "computer_play"
    /\ \E c \in Drawn(computer_strategy, numbers["computer"],
                      Strategy_play(computer_strategy, numbers["computer"],
                                    numbers["player"])) :
          /\ player2_choice' = c
          /\ pc' = IF c = Raised THEN "crashed" ELSE "update"
    /\ UNCHANGED <<mode, numbers, score, current_turn, computer_strategy,
                   choice1, strategy1, strategy2, iter, resolved,
                   player1_choice, result, rejected>>
    /\ UNCHANGED selectVars

\* simulate_game(): the two strategy calls of one turn
simulate_play ==
    /\ pc = "simulate_play"
    /\ \E c1 \in Drawn(strategy1, numbers["player1"],
                       Strategy_play(strategy1, numbers["player1"],
                                     numbers["player2"])) :
          IF c1 = Raised
          THEN /\ player1_choice' = c1
               /\ pc' = "crashed"
               /\ UNCHANGED player2_choice
          ELSE \E c2 \in Drawn(strategy2, numbers["player2"],
                               Strategy_play(strategy2, numbers["player2"],
                                             numbers["player1"])) :
                  /\ player1_choice' = c1
                  /\ player2_choice' = c2
                  /\ pc' = IF c2 = Raised THEN "crashed" ELSE "update"
    /\ UNCHANGED <<mode, numbers, score, current_turn, computer_strategy,
                   choice1, strategy1, strategy2, iter, resolved, result,
                   rejected>>
    /\ UNCHANGED selectVars

\* _update_game_state, the end of the loop body and, after the last
\* iteration, _end_game
update_game_state ==
    /\ pc = "update"
    /\ LET a == SideA
           b == SideB
           sc == TurnScores(player1_choice, player2_choice, score[a], score[b])
           score_after == [score EXCEPT ![a] = sc[1], ![b] = sc[2]]
       IN  /\ score' = score_after
           /\ numbers' = [numbers EXCEPT
                            ![a] = remove_number(numbers[a], player1_choice).numbers,
                            ![b] = remove_number(numbers[b], player2_choice).numbers]
           /\ current_turn' = IF mode = "play" THEN current_turn + 1 ELSE current_turn
           /\ iter' = iter + 1
           /\ resolved' = resolved + 1
           /\ player1_choice' = NoChoice
           /\ player2_choice' = NoChoice
           /\ pc' = IF LoopContinues(iter + 1)
                    THEN (IF mode = "play" THEN "get_player_choice" ELSE "simulate_play")
                    ELSE "done"
           /\ result' = IF LoopContinues(iter + 1) THEN result
                        ELSE end_game(score_after[a], score_after[b])
    /\ UNCHANGED <<mode, computer_strategy, choice1, strategy1, strategy2, rejected>>
    /\ UNCHANGED selectVars

Next ==
    \/ \E choice \in KeyLines : main_menu(choice)
    \/ \E choice \in KeyLines : select_strategy(choice)
    \/ \E choice \in KeyLines : select_simulation_choice1(choice)
    \/ \E choice \in KeyLines : select_simulation_choice2(choice)
    \/ \E line \in NumberLines(numbers["player"]) : get_player_choice(line)
    \/ computer_play
    \/ simulate_play
    \/ update_game_state

Spec == Init /\ [][Next]_vars

\* the human types a line that _get_player_choice accepts
accepted_choice ==
    /\ pc = "get_player_choice"
    /\ \E n \in Picks(numbers["player"]) :
          /\ get_player_choice(Numeral(n))
          /\ pc' = "computer_play"

\* the program runs on by itself between prompts, and at each number prompt
\* the human eventually types a number they hold
SpecFair ==
    /\ Spec
    /\ WF_vars(accepted_choice)
    /\ WF_vars(computer_play)
    /\ WF_vars(simulate_play)
    /\ WF_vars(update_game_state)

\* the methods of Game that run a match
Methods == {"play", "simulate_game"}

\* play() or simulate_game() called on the Game object after an earlier call
\* returned: the locals of the earlier call are gone, the fields of the Game
\* object (player, computer, current_turn, computer_strategy) are the ones it
\* left.  simulate_game() reads no field besides total_turns and strategies;
\* the repeated call of it is taken after a simulate_game() call.
call_again(method) ==
    /\ pc = "done"
    /\ IF method = "play"
       THEN /\ pc' = "select_strategy"
            /\ mode' = "play"
       ELSE /\ mode = "simulate"
            /\ pc' = "choice1"
            /\ mode' = "simulate"
    /\ numbers' = [numbers EXCEPT !["player1"] = << >>, !["player2"] = << >>]
    /\ score' = [score EXCEPT !["player1"] = 0, !["player2"] = 0]
    /\ choice1' = "None"
    /\ strategy1' = "None"
    /\ strategy2' = "None"
    /\ iter' = 0
    /\ resolved' = 0
    /\ result' = "none"
    /\ rejected' = 0
    /\ UNCHANGED <<current_turn, computer_strategy, player1_choice, player2_choice>>
    /\ UNCHANGED selectVars

NextReuse ==
    \/ Next
    \/ \E method \in Methods : call_again(method)

\* one Game object on which play() and simulate_game() are called repeatedly
SpecReuse == Init /\ [][NextReuse]_vars

----------------------------------------------------------------------------
(* SpecSelect: Strategy.play applied to argument lists *)

\* the ascending lists over 1..13 of length at most n
AscendingLists(n) ==
    UNION {{s \in [1..k -> Cards] : \A i \in 1..(k - 1) : s[i] < s[i + 1]} : k \in 0..n}

InitSelect ==
    /\ pc = "call"
    /\ arg_strategy \in StrategyNames
    /\ arg_player_numbers \in AscendingLists(MaxOwn)
    /\ arg_opponent_numbers \in AscendingLists(MaxOpp)
    /\ ret_play = NoChoice
    /\ mode = "none"
    /\ numbers = [p \in Players |-> << >>]
    /\ score = [p \in Players |-> 0]
    /\ current_turn = 1
    /\ computer_strategy = "None"
    /\ choice1 = "None"
    /\ strategy1 = "None"
    /\ strategy2 = "None"
    /\ iter = 0
    /\ resolved = 0
    /\ player1_choice = NoChoice
    /\ player2_choice = NoChoice
    /\ result = "none"
    /\ rejected = 0

play ==
    /\ pc = "call"
    /\ ret_play' \in Strategy_play(arg_strategy, arg_player_numbers,
                                   arg_opponent_numbers)
    /\ pc' = "returned"
    /\ UNCHANGED <<arg_strategy, arg_player_numbers, arg_opponent_numbers>>
    /\ UNCHANGED gameVars

NextSelect == play

SpecSelect == InitSelect /\ [][NextSelect]_vars

\* both developments in one: the match and the strategy calls on argument lists
InitAll == Init \/ InitSelect

NextAll == Next \/ NextSelect

SpecAll == InitAll /\ [][NextAll]_vars

----------------------------------------------------------------------------
(* Properties *)

\* C1: at every turn boundary of a match (the head of the loop body, and the
\* end of the match), in both modes, each of the two hands holds exactly
\* 13 - k numbers where k is the number of turns resolved so far, k is in
\* 0..13, and k = 13 exactly when both hands are empty and the match is over.
C1_HandSizes ==
    (mode \in {"play", "simulate"}
       /\ pc \in {"get_player_choice", "simulate_play", "done"})
    => /\ resolved \in 0..13
       /\ Len(numbers[SideA]) = 13 - resolved
       /\ Len(numbers[SideB]) = 13 - resolved
       /\ (resolved = 13) = (pc = "done")
       /\ pc = "done" => numbers[SideA] = << >> /\ numbers[SideB] = << >>

C1_Witness ==
    /\ mode = "play"
    /\ pc = "done"
    /\ resolved = 13
    /\ numbers["player"] = << >>
    /\ numbers["computer"] = << >>

\* C2: a resolved turn adds exactly 1 to the score of the side whose number is
\* strictly greater and leaves the other score alone; equal numbers change no
\* score; no step ever lowers a score, and the two scores together never
\* exceed the number of turns resolved.
C2_TurnScoring ==
    /\ [][/\ \A p \in Players : score'[p] >= score[p]
          /\ pc = "update" =>
               /\ player1_choice > player2_choice =>
                    /\ score'[SideA] = score[SideA] + 1
                    /\ score'[SideB] = score[SideB]
               /\ player2_choice > player1_choice =>
                    /\ score'[SideB] = score[SideB] + 1
                    /\ score'[SideA] = score[SideA]
               /\ player1_choice = player2_choice =>
                    /\ score'[SideA] = score[SideA]
                    /\ score'[SideB] = score[SideB]
          /\ pc # "update" => score' = score]_vars
    /\ [](score[SideA] + score[SideB] <= resolved)

C2_Witness ==
    /\ mode = "simulate"
    /\ resolved = 3
    /\ score["player1"] = 1
    /\ score["player2"] = 1

\* C3: when _update_game_state is entered with player1_choice in hand A and
\* player2_choice in hand B, it removes exactly those two numbers: each hand
\* loses one entry, keeps every other entry in place, and no other Player
\* object changes, whether the turn is won, lost or tied.
C3_RemovesExactlyPlayed ==
    [][(/\ pc = "update"
        /\ player1_choice \in Range(numbers[SideA])
        /\ player2_choice \in Range(numbers[SideB]))
       => /\ Len(numbers'[SideA]) = Len(numbers[SideA]) - 1
          /\ Len(numbers'[SideB]) = Len(numbers[SideB]) - 1
          /\ numbers'[SideA] = SelectSeq(numbers[SideA],
                                         LAMBDA x : x # player1_choice)
          /\ numbers'[SideB] = SelectSeq(numbers[SideB],
                                         LAMBDA x : x # player2_choice)
          /\ \A p \in Players \ {SideA, SideB} : numbers'[p] = numbers[p]]_vars

C3_Witness ==
    /\ mode = "simulate"
    /\ resolved = 1
    /\ score["player1"] = 0
    /\ score["player2"] = 0
    /\ Len(numbers["player1"]) = 12
    /\ Len(numbers["player2"]) = 12

\* C4: every strategy, applied to a non-empty player_numbers and any
\* opponent_numbers, returns an entry of player_numbers; and in a match every
\* number a strategy has chosen is in the hand of the side it plays for.
C4_SelectInOwn ==
    /\ (pc = "returned" /\ arg_player_numbers # << >>)
          => ret_play \in Range(arg_player_numbers)
    /\ pc = "update" =>
          /\ player2_choice \in Range(numbers[SideB])
          /\ mode = "simulate" => player1_choice \in Range(numbers[SideA])

C4_Witness ==
    /\ pc = "returned"
    /\ arg_strategy = "Strategic Play"
    /\ arg_opponent_numbers = << >>
    /\ Len(arg_player_numbers) = 3
    /\ ret_play \in Range(arg_player_numbers)

\* C5: Strategic Play on a non-empty player_numbers returns max(own) when the
\* opponent list is empty, else the least entry of own above max(opponent)
\* when there is one, else min(own); in particular own 3,7,9 against 5,6
\* gives 7, own 1,2,3 against 9,10 gives 1 and own 4,8 against nothing gives 8.
C5_StrategicPlayReference ==
    (pc = "returned" /\ arg_strategy = "Strategic Play"
       /\ arg_player_numbers # << >>)
    => LET own == Range(arg_player_numbers)
           opponent == Range(arg_opponent_numbers)
           candidates == {x \in own : \A y \in opponent : x > y}
           least(S) == CHOOSE m \in S : \A x \in S : m <= x
           greatest(S) == CHOOSE m \in S : \A x \in S : x <= m
       IN  /\ ret_play = IF opponent = {} THEN greatest(own)
                         ELSE IF candidates # {} THEN least(candidates)
                         ELSE least(own)
           /\ (arg_player_numbers = <<3, 7, 9>> /\ arg_opponent_numbers = <<5, 6>>)
                 => ret_play = 7
           /\ (arg_player_numbers = <<1, 2, 3>> /\ arg_opponent_numbers = <<9, 10>>)
                 => ret_play = 1
           /\ (arg_player_numbers = <<4, 8>> /\ arg_opponent_numbers = << >>)
                 => ret_play = 8

C5_Witness ==
    /\ pc = "returned"
    /\ arg_strategy = "Strategic Play"
    /\ arg_player_numbers = <<3, 7, 9>>
    /\ arg_opponent_numbers = <<5, 6>>
    /\ ret_play = 7

\* C6: a match ends only after exactly 13 resolved turns: the final result
\* exists exactly in the Finished state, Finished is reached with 13 turns
\* resolved, no state has more than 13, nothing happens after Finished, no
\* strategy call raises, and an unfinished match is never stuck: the human
\* still holds a number to type, a strategy is called on a non-empty hand,
\* and the turn to resolve has its two numbers.
C6_ExactlyThirteenTurns ==
    /\ [](/\ resolved \in 0..13
          /\ iter = resolved
          /\ (pc = "done") = (result # "none")
          /\ pc = "done" => resolved = 13
          /\ pc # "crashed"
          /\ pc = "get_player_choice" => numbers["player"] # << >>
          /\ pc = "computer_play" => numbers["computer"] # << >>
          /\ pc = "simulate_play" =>
                numbers["player1"] # << >> /\ numbers["player2"] # << >>
          /\ pc = "update" =>
                player1_choice \in Cards /\ player2_choice \in Cards)
    /\ [][pc # "done"]_vars

C6_Witness ==
    /\ mode = "simulate"
    /\ pc = "done"
    /\ resolved = 13
    /\ result # "none"

\* C7: the announced result depends only on the two final scores: player1
\* wins iff its score is higher, player2 wins iff its score is higher, a tie
\* iff the scores are equal, and the result is one of those three.
C7_ResultFromScores ==
    pc = "done" =>
       /\ result \in {"player1 wins", "player2 wins", "tie"}
       /\ (result = "player1 wins") = (score[SideA] > score[SideB])
       /\ (result = "player2 wins") = (score[SideB] > score[SideA])
       /\ (result = "tie") = (score[SideA] = score[SideB])

C7_Witness ==
    /\ mode = "play"
    /\ pc = "done"
    /\ result = "player2 wins"
    /\ score["computer"] > score["player"]

\* C8: a simulation of High Card against Low Card is one fixed run: with k
\* turns resolved player1 holds 1..13-k, player2 holds k+1..13, the turn being
\* resolved pairs 13-k with k+1, the scores are min(k,6) and max(0,k-7), and
\* the match ends 6 to 6, a tie.
C8_HighVersusLow ==
    (mode = "simulate" /\ strategy1 = "High Card" /\ strategy2 = "Low Card")
    => /\ numbers["player1"] = [i \in 1..(13 - resolved) |-> i]
       /\ numbers["player2"] = [i \in 1..(13 - resolved) |-> resolved + i]
       /\ score["player1"] = (IF resolved < 6 THEN resolved ELSE 6)
       /\ score["player2"] = (IF resolved > 7 THEN resolved - 7 ELSE 0)
       /\ pc \in {"simulate_play", "update", "done"}
       /\ pc = "simulate_play" =>
             player1_choice = NoChoice /\ player2_choice = NoChoice
       /\ pc = "update" =>
             player1_choice = 13 - resolved /\ player2_choice = resolved + 1
       /\ pc = "done" =>
             /\ resolved = 13
             /\ score["player1"] = 6
             /\ score["player2"] = 6
             /\ result = "tie"

C8_Witness ==
    /\ mode = "simulate"
    /\ strategy1 = "High Card"
    /\ strategy2 = "Low Card"
    /\ pc = "done"
    /\ score["player1"] = 6
    /\ score["player2"] = 6

\* C9: during a match a hand only shrinks: a step leaves each hand as it is
\* or drops one number from it, the dropped number is the one its side played
\* in that turn, the rest keeps its place, and no hand holds a number twice.
C9_HandsOnlyShrink ==
    /\ [][(pc \in {"get_player_choice", "computer_play", "simulate_play", "update"})
          => (\A p \in Players :
                \/ numbers'[p] = numbers[p]
                \/ \E x \in Range(numbers[p]) :
                      /\ numbers'[p] = SelectSeq(numbers[p], LAMBDA y : y # x)
                      /\ Len(numbers'[p]) = Len(numbers[p]) - 1
                      /\ \/ pc = "get_player_choice" /\ p = "player"
                               /\ x = player1_choice'
                         \/ pc = "update" /\ p = SideA /\ x = player1_choice
                         \/ pc = "update" /\ p = SideB /\ x = player2_choice)]_vars
    /\ [](\A p \in Players : Cardinality(Range(numbers[p])) = Len(numbers[p]))

C9_Witness ==
    /\ mode = "play"
    /\ pc = "update"
    /\ player1_choice \notin Range(numbers["player"])
    /\ player2_choice \in Range(numbers["computer"])
    /\ resolved = 6

\* C10: a line typed at the number prompt that is not a number, or names a
\* number the human no longer holds, is rejected: the program stays at the
\* prompt, turn counter, hands, scores and result are unchanged, and a valid
\* line is still accepted after any number of rejected ones.
C10_InvalidInputRejected ==
    /\ [][pc = "get_player_choice" =>
            \/ /\ pc' = "get_player_choice"
               /\ rejected' = rejected + 1
               /\ UNCHANGED <<numbers, score, current_turn, iter, resolved,
                              player1_choice, player2_choice, result, mode,
                              computer_strategy>>
            \/ \A line \in {<< >>, <<"x">>, <<"-">>, <<"-", "1">>, <<"1", "x">>}
                             \cup UNION {{Numeral(n), <<"0">> \o Numeral(n)} :
                                           n \in (0..14) \ Range(numbers["player"])} :
                  ~ get_player_choice(line)]_vars
    /\ [](pc = "get_player_choice" =>
             /\ numbers["player"] # << >>
             /\ ENABLED get_player_choice(Numeral(numbers["player"][1])))

C10_Witness ==
    /\ pc = "get_player_choice"
    /\ rejected = 2
    /\ resolved = 4
    /\ current_turn = 5
    /\ Len(numbers["player"]) = 9

\* C11: whenever _update_game_state is called, in play() and in
\* simulate_game(), player1_choice is in side A's numbers and player2_choice
\* is in side B's numbers.
C11_PreconditionAtCall ==
    pc = "update" =>
       /\ player1_choice \in Range(numbers[SideA])
       /\ player2_choice \in Range(numbers[SideB])

\* C12: a call of _update_game_state with a number its side does not hold
\* fails: the program stops with an error, no score is awarded and no hand
\* changes.
C12_InvalidMoveIsFatal ==
    [][(/\ pc = "update"
        /\ \/ player1_choice \notin Range(numbers[SideA])
           \/ player2_choice \notin Range(numbers[SideB]))
       => (/\ pc' = "crashed"
           /\ score' = score
           /\ numbers' = numbers)]_vars

\* C13: every strategy's play, called with an empty player_numbers and any
\* opponent_numbers, raises and returns no number.
C13_EmptyOwnRaises ==
    (pc = "returned" /\ arg_player_numbers = << >>)
    => /\ ret_play = Raised
       /\ ret_play \notin Cards

C13_Witness ==
    /\ pc = "returned"
    /\ arg_strategy = "Strategic Play"
    /\ arg_player_numbers = << >>
    /\ arg_opponent_numbers = <<5, 6>>
    /\ ret_play = Raised

\* C14: a match is in progress or finished only with a strategy assigned to
\* every automated side (computer_strategy in play(), strategy1 and strategy2
\* in simulate_game()); while the program is still at the menu or a strategy
\* prompt no turn has been played and the Game's hands, scores and turn
\* counter are as constructed; and an unrecognised key leaves the program at
\* the same prompt with no strategy assigned and no hand or score changed.
C14_StartNeedsStrategies ==
    /\ []((mode = "play" /\ pc \in {"get_player_choice", "computer_play",
                                     "update", "done"})
             => computer_strategy \in StrategyNames)
    /\ []((mode = "simulate" /\ pc \in {"simulate_play", "update", "done"})
             => (strategy1 \in StrategyNames /\ strategy2 \in StrategyNames))
    /\ [](pc \in {"menu", "select_strategy", "choice1", "choice2"}
             => /\ resolved = 0
                /\ current_turn = 1
                /\ computer_strategy = "None"
                /\ strategy1 = "None"
                /\ strategy2 = "None"
                /\ \A p \in Players : score[p] = 0
                /\ numbers["player"] = InitialNumbers
                /\ numbers["computer"] = InitialNumbers
                /\ player1_choice = NoChoice
                /\ player2_choice = NoChoice)
    /\ [][(pc \in {"menu", "select_strategy", "choice1", "choice2"}) =>
           (\/ /\ pc' = pc
               /\ rejected' = rejected + 1
               /\ UNCHANGED <<mode, numbers, score, current_turn,
                              computer_strategy, choice1, strategy1, strategy2,
                              iter, resolved, result>>
            \/ /\ \A key \in KeyLines \ {"1", "2"} : ~ main_menu(key)
               /\ \A key \in KeyLines \ {"1", "2", "3", "4"} :
                     /\ ~ select_strategy(key)
                     /\ ~ select_simulation_choice1(key)
                     /\ ~ select_simulation_choice2(key))]_vars

C14_Witness ==
    /\ mode = "simulate"
    /\ pc = "choice2"
    /\ choice1 = "4"
    /\ rejected = 2
    /\ strategy1 = "None"
    /\ strategy2 = "None"
    /\ numbers["player1"] = << >>

\* C15: in every turn of either mode, when Strategic Play is called with a
\* non-empty opponent list and holds a number above the opponent's highest,
\* the number it plays is strictly greater than the number the opponent plays
\* in that turn.
C15_CandidateWinsTurn ==
    pc = "update" =>
       /\ ((IF mode = "play" THEN computer_strategy ELSE strategy2) = "Strategic Play"
             /\ numbers[SideA] # << >>
             /\ \E x \in Range(numbers[SideB]) : x > ListMax(numbers[SideA]))
          => player2_choice > player1_choice
       /\ (mode = "simulate" /\ strategy1 = "Strategic Play"
             /\ numbers[SideB] # << >>
             /\ \E x \in Range(numbers[SideA]) : x > ListMax(numbers[SideB]))
          => player1_choice > player2_choice

\* C16: when a strategy's play is called in turn k, its own list and the
\* opponent list both hold 13 - k + 1 numbers, the opponent list is not empty
\* and still holds the number the opponent plays in turn k.
C16_StrategySeesStartOfTurnHands ==
    /\ pc = "computer_play" =>
          /\ Len(numbers["computer"]) = 13 - resolved
          /\ Len(numbers["player"]) = 13 - resolved
          /\ numbers["player"] # << >>
          /\ player1_choice \in Range(numbers["player"])
    /\ pc = "simulate_play" =>
          /\ Len(numbers["player1"]) = 13 - resolved
          /\ Len(numbers["player2"]) = 13 - resolved
          /\ numbers["player1"] # << >>
          /\ numbers["player2"] # << >>
    /\ (mode = "simulate" /\ pc = "update") =>
          /\ player1_choice \in Range(numbers["player1"])
          /\ player2_choice \in Range(numbers["player2"])

\* C19: a simulation of Strategic Play against High Card, on either side, is
\* one fixed run: Strategic Play plays 1 against 13 in turn 1 and loses it,
\* then in each of turns 2..13 plays the one number above High Card's highest
\* (14 - k against 13 - k after k turns) and wins it, so the match ends 12 to
\* 1 for Strategic Play.
C19_StrategicVersusHigh ==
    LET Run(s, h) ==
           /\ numbers[h] = [i \in 1..(13 - resolved) |-> i]
           /\ numbers[s] = [i \in 1..(13 - resolved) |->
                               IF resolved = 0 THEN i ELSE i + 1]
           /\ score[h] = (IF resolved = 0 THEN 0 ELSE 1)
           /\ score[s] = (IF resolved = 0 THEN 0 ELSE resolved - 1)
           /\ pc \in {"simulate_play", "update", "done"}
           /\ pc = "update" =>
                 LET cs == IF s = "player1" THEN player1_choice ELSE player2_choice
                     ch == IF h = "player1" THEN player1_choice ELSE player2_choice
                 IN  /\ ch = 13 - resolved
                     /\ cs = (IF resolved = 0 THEN 1 ELSE 14 - resolved)
                     /\ resolved >= 1 => cs > ch
                     /\ resolved = 0 => cs < ch
           /\ pc = "done" =>
                 /\ score[s] = 12
                 /\ score[h] = 1
                 /\ result = (IF s = "player1" THEN "player1 wins"
                              ELSE "player2 wins")
    IN  /\ (mode = "simulate" /\ strategy1 = "Strategic Play"
              /\ strategy2 = "High Card") => Run("player1", "player2")
        /\ (mode = "simulate" /\ strategy1 = "High Card"
              /\ strategy2 = "Strategic Play") => Run("player2", "player1")

C19_Witness ==
    /\ mode = "simulate"
    /\ strategy1 = "High Card"
    /\ strategy2 = "Strategic Play"
    /\ pc = "done"
    /\ score["player1"] = 1
    /\ score["player2"] = 12
    /\ result = "player2 wins"

\* C17: once the turn loop of a match has started, the match reaches
\* Finished: a simulation by itself, an interactive match provided the human
\* eventually types, at each prompt, a number they hold.
C17_MatchTerminates ==
    (pc \in {"get_player_choice", "simulate_play"}) ~> (pc = "done")

C17_Witness ==
    /\ mode = "play"
    /\ pc = "done"
    /\ current_turn = 14
    /\ iter = 13
    /\ result # "none"

\* C18: every match started on a Game object begins with both hands holding
\* exactly 1..13, both scores 0 and the turn counter at 1, also when the
\* match is started by a later play() or simulate_game() call on the same
\* object.
C18_MatchStartsFresh ==
    (pc \in {"get_player_choice", "simulate_play"} /\ iter = 0)
        => /\ numbers[SideA] = InitialNumbers
           /\ numbers[SideB] = InitialNumbers
           /\ score[SideA] = 0
           /\ score[SideB] = 0
           /\ resolved = 0
           /\ mode = "play" => current_turn = 1

====
